---- MODULE Spec2Model ----
(***************************************************************************)
(* Model of drivers/input/keycombo.c: the key-combination detector.        *)
(*                                                                         *)
(* One keycombo_state instance, its input-event handler keycombo_event()   *)
(* (run by any number of event producers, serialised by state->lock), the   *)
(* debounce timer of the delayed work key_down_work, and the worker of the  *)
(* ordered workqueue state->wq running do_key_down() and do_key_up().       *)
(*                                                                         *)
(* keycombo_event() is split at every call into the workqueue or into a     *)
(* wake source that do_key_up() also touches, because the timer and the     *)
(* worker do not take state->lock and run between those calls.              *)
(* Both callbacks (key_down_fn, key_up_fn) are configured.  The debounce    *)
(* delay is any duration: the timer may expire at any moment it is armed.   *)
(***************************************************************************)
EXTENDS Integers, Sequences, FiniteSets

(***************************************************************************)
(* Bounds of the model.                                                    *)
(***************************************************************************)
\* Largest valid key code of the model (the kernel's KEY_MAX is 0x2ff).
MaxCode == 3
\* Number of times the combo condition may become true in one behaviour.
MaxCycles == 2

KEY_MAX == MaxCode + 1

EV_KEY == "EV_KEY"
EV_REL == "EV_REL"

EventTypes == {EV_KEY, EV_REL}
\* Event codes: 0, the valid codes, and KEY_MAX itself (out of range).
EventCodes == 0..KEY_MAX
\* Event values: 0 release, 1 press, 2 auto-repeat.
EventValues == {0, 1, 2}

Cycles == 1..MaxCycles

(***************************************************************************)
(* Platform data: the zero-terminated arrays keys_down and keys_up, given   *)
(* here without their terminator.  KEY_MAX and KEY_MAX + 1 are the          *)
(* out-of-range codes.                                                     *)
(***************************************************************************)
PlatformData ==
    { [keys_down |-> <<1, 2>>,           keys_up |-> <<>>],
      [keys_down |-> <<1>>,              keys_up |-> <<2>>],
      [keys_down |-> <<1, 2>>,           keys_up |-> <<3>>],
      [keys_down |-> <<>>,               keys_up |-> <<1>>],
      [keys_down |-> <<>>,               keys_up |-> <<>>],
      [keys_down |-> <<KEY_MAX>>,        keys_up |-> <<1, 2>>],
      [keys_down |-> <<1, 1>>,           keys_up |-> <<>>],
      [keys_down |-> <<1, 2>>,           keys_up |-> <<2>>],
      [keys_down |-> <<KEY_MAX, 1, KEY_MAX + 1>>, keys_up |-> <<KEY_MAX, 2>>] }

VARIABLES
    keys_down,                \* pdata->keys_down
    keys_up,                  \* pdata->keys_up
    keybit,                   \* state->keybit: the tracked codes
    upbit,                    \* state->upbit: the tracked codes counted as up-keys
    key_down_target,          \* state->key_down_target
    key,                      \* state->key: the codes marked pressed
    key_down,                 \* state->key_down
    key_up,                   \* state->key_up
    key_is_down,              \* state->key_is_down
    combo_held_wake_source,   \* active flag of state->combo_held_wake_source
    combo_up_wake_source,     \* active flag of state->combo_up_wake_source
    lock,                     \* state->lock is held
    pc,                       \* position of the producer inside keycombo_event
    dw_timer,                 \* the timer of key_down_work is armed
    worklist,                 \* the work items queued on state->wq, oldest first
    down_run,                 \* position of the worker inside do_key_down
    up_run,                   \* position of the worker inside do_key_up
    \* History variables (observe, never steer):
    cycle,                    \* number of times the combo-complete branch ran
    dw_cycle,                 \* cycle that armed the pending key_down_work
    uw_cycle,                 \* cycle that queued the pending key_up_work
    down_run_cycle,           \* cycle of the running do_key_down
    up_run_cycle,             \* cycle of the running do_key_up
    calls,                    \* the callback invocations so far, in order
    elapsed,                  \* cycles whose debounce timer expired
    held_at_expiry,           \* ... with the combo still held and no event in progress
    cancelled,                \* cycles whose key_down_work was cancelled
    returned,                 \* cycles whose key_down_fn returned
    last_ev,                  \* how the last keycombo_event call ended
    life                      \* the instance: registered, draining, removed

\* What keycombo_probe builds from the platform data.
pdatavars == <<keys_down, keys_up, keybit, upbit, key_down_target>>
\* What only keycombo_probe and keycombo_remove write.
cfgvars == <<pdatavars, life>>
keyvars == <<key, key_down, key_up>>
phasevars == <<key_is_down, combo_held_wake_source>>
wqvars == <<dw_timer, worklist, down_run, up_run>>
histvars == <<cycle, dw_cycle, uw_cycle, down_run_cycle, up_run_cycle, calls,
              elapsed, held_at_expiry, cancelled, returned>>
vars == <<cfgvars, keyvars, phasevars, combo_up_wake_source, lock, pc,
          wqvars, histvars, last_ev>>

(***************************************************************************)
(* keycombo_probe: the bitmaps and the target built from the platform data. *)
(***************************************************************************)
Range(s) == { s[i] : i \in 1..Len(s) }

\* while ((key = *keyp++)) { if (key >= KEY_MAX) continue; ... }
ValidCodes(s) == { c \in Range(s) : c < KEY_MAX }

\* state->key_down_target++ once per in-range entry of keys_down.
RECURSIVE CountValid(_)
CountValid(s) ==
    IF s = <<>> THEN 0
    ELSE (IF Head(s) >= KEY_MAX THEN 0 ELSE 1) + CountValid(Tail(s))

probe_keybit(pdata) == ValidCodes(pdata.keys_down) \cup ValidCodes(pdata.keys_up)
probe_upbit(pdata) == ValidCodes(pdata.keys_up)
probe_key_down_target(pdata) == CountValid(pdata.keys_down)

\* A workqueue that is not ordered: two work items in flight.
max_active_unordered == 1 + 1

\* alloc_ordered_workqueue("keycombo", 0): at most one work item in flight.
max_active == 1

Init ==
    /\ \E pdata \in PlatformData :
          /\ keys_down = pdata.keys_down
          /\ keys_up = pdata.keys_up
          /\ keybit = probe_keybit(pdata)
          /\ upbit = probe_upbit(pdata)
          /\ key_down_target = probe_key_down_target(pdata)
    /\ key = {}
    /\ key_down = 0
    /\ key_up = 0
    /\ key_is_down = 0
    /\ combo_held_wake_source = FALSE
    /\ combo_up_wake_source = FALSE
    /\ lock = FALSE
    /\ pc = "idle"
    /\ dw_timer = FALSE
    /\ worklist = <<>>
    /\ down_run = "idle"
    /\ up_run = "idle"
    /\ cycle = 0
    /\ dw_cycle = 0
    /\ uw_cycle = 0
    /\ down_run_cycle = 0
    /\ up_run_cycle = 0
    /\ calls = <<>>
    /\ elapsed = {}
    /\ held_at_expiry = {}
    /\ cancelled = {}
    /\ returned = {}
    /\ last_ev = "none"
    /\ life = "registered"

(***************************************************************************)
(* The workqueue primitives keycombo.c calls.                              *)
(***************************************************************************)
InList(w) == \E i \in 1..Len(worklist) : worklist[i] = w
Without(s, w) == SelectSeq(s, LAMBDA x : x # w)

\* WORK_STRUCT_PENDING of key_down_work: on its timer or on the worklist.
DownPending == dw_timer \/ InList("key_down_work")
\* WORK_STRUCT_PENDING of key_up_work.
UpPending == InList("key_up_work")

Running == (IF down_run # "idle" THEN {"key_down_work"} ELSE {})
           \cup (IF up_run # "idle" THEN {"key_up_work"} ELSE {})

\* A queued item may start: the queue has a free slot and the item itself is
\* not running (a work item is never run concurrently with itself).
MayStart(w) ==
    /\ worklist # <<>>
    /\ Head(worklist) = w
    /\ Cardinality(Running) < max_active
    /\ w \notin Running

(***************************************************************************)
(* keycombo_event                                                          *)
(***************************************************************************)
\* The type test left out: every event with a tracked code is processed.
Ignored_any_type(type, code) ==
    \/ code >= KEY_MAX
    \/ code \notin keybit

\* Lines 77-84: the event is dropped before the lock is taken.
Ignored(type, code) ==
    \/ type # EV_KEY
    \/ code >= KEY_MAX
    \/ code \notin keybit

\* The duplicate test left out.
IsDuplicate_never(code, value) == FALSE

\* The value compared with 1: an auto-repeat (2) taken for a release.
IsDuplicate_press_is_one(code, value) == (code \in key) = (value = 1)

\* Line 87: !test_bit(code, state->key) == !value.
IsDuplicate(code, value) == (code \in key) = (value # 0)

\* Line 89: __change_bit(code, state->key).
ChangeBit(code) == IF code \in key THEN key \ {code} ELSE key \cup {code}

\* Lines 90-100: the counter the event changes, and by how much.
NewKeyUp(code, value) ==
    IF code \in upbit THEN (IF value # 0 THEN key_up + 1 ELSE key_up - 1)
    ELSE key_up
NewKeyDown(code, value) ==
    IF code \in upbit THEN key_down
    ELSE (IF value # 0 THEN key_down + 1 ELSE key_down - 1)

\* The up-keys left out of the condition.
ComboComplete_down_only(kd, ku) == kd = key_down_target

\* Line 101.
ComboComplete(kd, ku) == kd = key_down_target /\ ku = 0

\* The deactivate queued whatever cancel_delayed_work returned.
ShouldQueueKeyUp_always(cancel_ok) == TRUE

\* The deactivate never queued.
ShouldQueueKeyUp_never(cancel_ok) == FALSE

\* Line 108: the deactivate is queued when the cancellation failed.
ShouldQueueKeyUp(cancel_ok) == ~cancel_ok

\* Lines 71-103 and 107: up to the first call into the workqueue.
keycombo_event(type, code, value) ==
    IF Ignored(type, code)
    THEN /\ last_ev' = "ignored"
         /\ UNCHANGED <<cfgvars, keyvars, phasevars, combo_up_wake_source,
                        lock, pc, wqvars, histvars>>
    ELSE /\ lock = FALSE
         /\ IF IsDuplicate(code, value)
            THEN /\ last_ev' = "duplicate"
                 /\ UNCHANGED <<cfgvars, keyvars, phasevars,
                                combo_up_wake_source, lock, pc, wqvars,
                                histvars>>
            ELSE /\ last_ev' = "change"
                 /\ key' = ChangeBit(code)
                 /\ key_up' = NewKeyUp(code, value)
                 /\ key_down' = NewKeyDown(code, value)
                 /\ IF ComboComplete(key_down', key_up')
                    THEN /\ cycle < MaxCycles
                         /\ cycle' = cycle + 1
                         /\ combo_held_wake_source' = TRUE
                         /\ key_is_down' = 1
                         /\ lock' = TRUE
                         /\ pc' = "queue_delayed_work"
                    ELSE IF key_is_down # 0
                    THEN /\ lock' = TRUE
                         /\ pc' = "cancel_delayed_work"
                         /\ UNCHANGED <<phasevars, cycle>>
                    ELSE UNCHANGED <<phasevars, lock, pc, cycle>>
                 /\ UNCHANGED <<cfgvars, combo_up_wake_source, wqvars,
                                dw_cycle, uw_cycle, down_run_cycle,
                                up_run_cycle, calls, elapsed, held_at_expiry,
                                cancelled, returned>>

\* The activate queued with queue_work: on the worklist at once, no debounce.
event_queue_work_undelayed ==
    /\ pc = "queue_delayed_work"
    /\ IF DownPending
       THEN UNCHANGED <<worklist, dw_cycle>>
       ELSE /\ worklist' = Append(worklist, "key_down_work")
            /\ dw_cycle' = cycle
    /\ lock' = FALSE
    /\ pc' = "idle"
    /\ UNCHANGED <<cfgvars, keyvars, phasevars, combo_up_wake_source,
                   dw_timer, down_run, up_run, cycle, uw_cycle,
                   down_run_cycle, up_run_cycle, calls, elapsed,
                   held_at_expiry, cancelled, returned, last_ev>>

\* Lines 104-106 and 116: queue_delayed_work, then the unlock.
event_queue_delayed_work ==
    /\ pc = "queue_delayed_work"
    /\ IF DownPending
       THEN UNCHANGED <<dw_timer, dw_cycle>>
       ELSE /\ dw_timer' = TRUE
            /\ dw_cycle' = cycle
    /\ lock' = FALSE
    /\ pc' = "idle"
    /\ UNCHANGED <<cfgvars, keyvars, phasevars, combo_up_wake_source,
                   worklist, down_run, up_run, cycle, uw_cycle,
                   down_run_cycle, up_run_cycle, calls, elapsed,
                   held_at_expiry, cancelled, returned, last_ev>>

\* Line 108: cancel_delayed_work; when it succeeded, lines 112-116 too.
event_cancel_delayed_work ==
    /\ pc = "cancel_delayed_work"
    /\ dw_timer' = FALSE
    /\ worklist' = Without(worklist, "key_down_work")
    /\ cancelled' = IF DownPending THEN cancelled \cup {dw_cycle} ELSE cancelled
    /\ dw_cycle' = IF DownPending THEN 0 ELSE dw_cycle
    /\ IF ShouldQueueKeyUp(DownPending)
       THEN /\ pc' = "pm_stay_awake"
            /\ UNCHANGED <<phasevars, lock>>
       ELSE /\ combo_held_wake_source' = FALSE
            /\ key_is_down' = 0
            /\ lock' = FALSE
            /\ pc' = "idle"
    /\ UNCHANGED <<cfgvars, keyvars, combo_up_wake_source, down_run, up_run,
                   cycle, uw_cycle, down_run_cycle, up_run_cycle, calls,
                   elapsed, held_at_expiry, returned, last_ev>>

\* Line 109: __pm_stay_awake(&state->combo_up_wake_source).
event_pm_stay_awake ==
    /\ pc = "pm_stay_awake"
    /\ combo_up_wake_source' = TRUE
    /\ pc' = "queue_work"
    /\ UNCHANGED <<cfgvars, keyvars, phasevars, lock, wqvars, histvars,
                   last_ev>>

\* The __pm_relax of the held wake source left out after a failed cancel.
event_queue_work_keeps_held ==
    /\ pc = "queue_work"
    /\ IF UpPending
       THEN UNCHANGED <<worklist, uw_cycle>>
       ELSE /\ worklist' = Append(worklist, "key_up_work")
            /\ uw_cycle' = cycle
    /\ key_is_down' = 0
    /\ lock' = FALSE
    /\ pc' = "idle"
    /\ UNCHANGED <<cfgvars, keyvars, combo_held_wake_source,
                   combo_up_wake_source, dw_timer, down_run, up_run, cycle,
                   dw_cycle, down_run_cycle, up_run_cycle, calls, elapsed,
                   held_at_expiry, cancelled, returned, last_ev>>

\* Lines 110-116: queue_work, the release of the held wake source, the unlock.
event_queue_work ==
    /\ pc = "queue_work"
    /\ IF UpPending
       THEN UNCHANGED <<worklist, uw_cycle>>
       ELSE /\ worklist' = Append(worklist, "key_up_work")
            /\ uw_cycle' = cycle
    /\ combo_held_wake_source' = FALSE
    /\ key_is_down' = 0
    /\ lock' = FALSE
    /\ pc' = "idle"
    /\ UNCHANGED <<cfgvars, keyvars, combo_up_wake_source, dw_timer,
                   down_run, up_run, cycle, dw_cycle, down_run_cycle,
                   up_run_cycle, calls, elapsed, held_at_expiry, cancelled,
                   returned, last_ev>>

(***************************************************************************)
(* The debounce timer and the worker                                       *)
(***************************************************************************)
\* The timer of key_down_work expires: the work goes onto the worklist.
delayed_work_timer_fn ==
    /\ dw_timer
    /\ dw_timer' = FALSE
    /\ worklist' = Append(worklist, "key_down_work")
    /\ elapsed' = elapsed \cup {dw_cycle}
    /\ held_at_expiry' =
          IF ~lock /\ key_is_down = 1 /\ ComboComplete(key_down, key_up)
          THEN held_at_expiry \cup {dw_cycle} ELSE held_at_expiry
    /\ UNCHANGED <<cfgvars, keyvars, phasevars, combo_up_wake_source, lock,
                   pc, down_run, up_run, cycle, dw_cycle, uw_cycle,
                   down_run_cycle, up_run_cycle, calls, cancelled, returned,
                   last_ev>>

\* do_key_down taking state->lock around the callback.
do_key_down_holding_lock ==
    /\ MayStart("key_down_work")
    /\ lock = FALSE
    /\ lock' = TRUE
    /\ worklist' = Tail(worklist)
    /\ down_run' = "key_down_fn"
    /\ down_run_cycle' = dw_cycle
    /\ dw_cycle' = 0
    /\ calls' = Append(calls, [fn |-> "key_down_fn", cycle |-> dw_cycle])
    /\ UNCHANGED <<cfgvars, keyvars, phasevars, combo_up_wake_source,
                   pc, dw_timer, up_run, cycle, uw_cycle, up_run_cycle,
                   elapsed, held_at_expiry, cancelled, returned, last_ev>>

\* Lines 52-59: the worker takes key_down_work and calls key_down_fn.
do_key_down ==
    /\ MayStart("key_down_work")
    /\ worklist' = Tail(worklist)
    /\ down_run' = "key_down_fn"
    /\ down_run_cycle' = dw_cycle
    /\ dw_cycle' = 0
    /\ calls' = Append(calls, [fn |-> "key_down_fn", cycle |-> dw_cycle])
    /\ UNCHANGED <<cfgvars, keyvars, phasevars, combo_up_wake_source, lock,
                   pc, dw_timer, up_run, cycle, uw_cycle, up_run_cycle,
                   elapsed, held_at_expiry, cancelled, returned, last_ev>>

\* Line 60: key_down_fn returns and do_key_down ends.
do_key_down_return ==
    /\ down_run = "key_down_fn"
    /\ down_run' = "idle"
    /\ returned' = returned \cup {down_run_cycle}
    /\ down_run_cycle' = 0
    /\ UNCHANGED <<cfgvars, keyvars, phasevars, combo_up_wake_source, lock,
                   pc, dw_timer, worklist, up_run, cycle, dw_cycle, uw_cycle,
                   up_run_cycle, calls, elapsed, held_at_expiry, cancelled,
                   last_ev>>

\* Lines 62-67: the worker takes key_up_work and calls key_up_fn.
do_key_up ==
    /\ MayStart("key_up_work")
    /\ worklist' = Tail(worklist)
    /\ up_run' = "key_up_fn"
    /\ up_run_cycle' = uw_cycle
    /\ uw_cycle' = 0
    /\ calls' = Append(calls, [fn |-> "key_up_fn", cycle |-> uw_cycle])
    /\ UNCHANGED <<cfgvars, keyvars, phasevars, combo_up_wake_source, lock,
                   pc, dw_timer, down_run, cycle, dw_cycle, down_run_cycle,
                   elapsed, held_at_expiry, cancelled, returned, last_ev>>

\* Line 67: key_up_fn returns.
do_key_up_return ==
    /\ up_run = "key_up_fn"
    /\ up_run' = "pm_relax"
    /\ UNCHANGED <<cfgvars, keyvars, phasevars, combo_up_wake_source, lock,
                   pc, dw_timer, worklist, down_run, histvars, last_ev>>

\* do_key_up ending without its __pm_relax.
do_key_up_pm_relax_missing ==
    /\ up_run = "pm_relax"
    /\ up_run' = "idle"
    /\ up_run_cycle' = 0
    /\ UNCHANGED <<cfgvars, keyvars, phasevars, combo_up_wake_source, lock,
                   pc, dw_timer, worklist, down_run, cycle, dw_cycle,
                   uw_cycle, down_run_cycle, calls, elapsed, held_at_expiry,
                   cancelled, returned, last_ev>>

\* Lines 68-69: __pm_relax(&state->combo_up_wake_source), do_key_up ends.
do_key_up_pm_relax ==
    /\ up_run = "pm_relax"
    /\ combo_up_wake_source' = FALSE
    /\ up_run' = "idle"
    /\ up_run_cycle' = 0
    /\ UNCHANGED <<cfgvars, keyvars, phasevars, lock, pc, dw_timer, worklist,
                   down_run, cycle, dw_cycle, uw_cycle, down_run_cycle,
                   calls, elapsed, held_at_expiry, cancelled, returned,
                   last_ev>>

Event == \E type \in EventTypes, code \in EventCodes, value \in EventValues :
            keycombo_event(type, code, value)

Next ==
    \/ Event
    \/ event_queue_delayed_work
    \/ event_cancel_delayed_work
    \/ event_pm_stay_awake
    \/ event_queue_work
    \/ delayed_work_timer_fn
    \/ do_key_down
    \/ do_key_down_return
    \/ do_key_up
    \/ do_key_up_return
    \/ do_key_up_pm_relax

Spec == Init /\ [][Next]_vars

(***************************************************************************)
(* keycombo_remove                                                         *)
(***************************************************************************)
\* Lines 366-368: input_unregister_handler returns once no event is in
\* flight; destroy_workqueue starts to drain the queue.
keycombo_remove ==
    /\ life = "registered"
    /\ pc = "idle"
    /\ life' = "draining"
    /\ UNCHANGED <<pdatavars, keyvars, phasevars, combo_up_wake_source, lock,
                   pc, wqvars, histvars, last_ev>>

\* Lines 368-370: the queue is empty and idle, destroy_workqueue returns,
\* the state is freed.  The timer of key_down_work is not touched.
keycombo_remove_return ==
    /\ life = "draining"
    /\ worklist = <<>>
    /\ Running = {}
    /\ life' = "removed"
    /\ UNCHANGED <<pdatavars, keyvars, phasevars, combo_up_wake_source, lock,
                   pc, wqvars, histvars, last_ev>>

\* The timer expires while the queue drains: the queue refuses the work.
timer_fn_while_draining ==
    /\ life = "draining"
    /\ dw_timer
    /\ dw_timer' = FALSE
    /\ elapsed' = elapsed \cup {dw_cycle}
    /\ UNCHANGED <<cfgvars, keyvars, phasevars, combo_up_wake_source, lock,
                   pc, worklist, down_run, up_run, cycle, dw_cycle, uw_cycle,
                   down_run_cycle, up_run_cycle, calls, held_at_expiry,
                   cancelled, returned, last_ev>>

\* The timer expires after kfree(state): a use of freed memory, whose
\* outcomes include a call of key_down_fn and no call at all.
timer_fn_after_free ==
    /\ life = "removed"
    /\ dw_timer
    /\ dw_timer' = FALSE
    /\ elapsed' = elapsed \cup {dw_cycle}
    /\ \/ calls' = Append(calls, [fn |-> "key_down_fn", cycle |-> dw_cycle])
       \/ calls' = calls
    /\ UNCHANGED <<cfgvars, keyvars, phasevars, combo_up_wake_source, lock,
                   pc, worklist, down_run, up_run, cycle, dw_cycle, uw_cycle,
                   down_run_cycle, up_run_cycle, held_at_expiry, cancelled,
                   returned, last_ev>>

\* The worker goes on while the queue drains.
WorkerStep ==
    \/ do_key_down
    \/ do_key_down_return
    \/ do_key_up
    \/ do_key_up_return
    \/ do_key_up_pm_relax

NextWithRemove ==
    \/ life = "registered" /\ Next
    \/ life = "draining" /\ WorkerStep
    \/ keycombo_remove
    \/ keycombo_remove_return
    \/ timer_fn_while_draining
    \/ timer_fn_after_free

\* The instance from keycombo_probe to after keycombo_remove.
TeardownSpec == Init /\ [][NextWithRemove]_vars

\* A producer holding the spinlock runs on; an expired or armed timer fires;
\* the worker takes queued work and the callbacks return.  No event is forced.
Fairness ==
    /\ WF_vars(event_queue_delayed_work)
    /\ WF_vars(event_cancel_delayed_work)
    /\ WF_vars(event_pm_stay_awake)
    /\ WF_vars(event_queue_work)
    /\ WF_vars(delayed_work_timer_fn)
    /\ WF_vars(do_key_down)
    /\ WF_vars(do_key_down_return)
    /\ WF_vars(do_key_up)
    /\ WF_vars(do_key_up_return)
    /\ WF_vars(do_key_up_pm_relax)

FairSpec == Spec /\ Fairness

(***************************************************************************)
(* Vocabulary of the properties                                            *)
(***************************************************************************)
\* Number of invocations of callback fn logged for cycle c.
NCalls(fn, c) ==
    Cardinality({ i \in 1..Len(calls) : calls[i] = [fn |-> fn, cycle |-> c] })
NDown(c) == NCalls("key_down_fn", c)
NUp(c) == NCalls("key_up_fn", c)

\* Cycle c is over: its break has been processed to the end.
Ended(c) == c < cycle \/ (c = cycle /\ key_is_down = 0)

\* The delayed activate of cycle c is still outstanding.
DownOutstanding(c) == DownPending /\ dw_cycle = c
\* The deactivate of cycle c is queued and has not started.
UpOutstanding(c) == UpPending /\ uw_cycle = c

\* The keys the handler counts in key_down, and those it counts in key_up.
DownRoleKeys == keybit \ upbit
UpRoleKeys == upbit

\* Everything keycombo_event may change, the history variables apart.
corevars == <<cfgvars, keyvars, phasevars, combo_up_wake_source, lock, pc,
              wqvars>>

(***************************************************************************)
(* C1: the callback invocations of the instance alternate and start with   *)
(* the activate: key_down_fn, key_up_fn, key_down_fn, ... under every       *)
(* interleaving of events, timer expiry and worker steps.                   *)
(***************************************************************************)
C1_Alternating ==
    \A i \in 1..Len(calls) :
        calls[i].fn = IF i % 2 = 1 THEN "key_down_fn" ELSE "key_up_fn"

\* A second activate has been invoked after a full activate/deactivate pair.
C1_Witness ==
    /\ Len(calls) >= 3
    /\ calls[1].fn = "key_down_fn"
    /\ calls[2].fn = "key_up_fn"
    /\ calls[3].fn = "key_down_fn"

(***************************************************************************)
(* C2: do_key_down and do_key_up never execute at the same time, and the    *)
(* callbacks are invoked in the order their tasks were submitted: by cycle, *)
(* and within one cycle the activate before the deactivate.                 *)
(***************************************************************************)
C2_Serialized ==
    /\ Cardinality(Running) <= 1
    /\ \A i, j \in 1..Len(calls) :
          i < j =>
             \/ calls[i].cycle < calls[j].cycle
             \/ /\ calls[i].cycle = calls[j].cycle
                /\ calls[i].fn = "key_down_fn"
                /\ calls[j].fn = "key_up_fn"

\* The deactivate task waits on the queue while the activate callback runs.
C2_Witness ==
    /\ down_run = "key_down_fn"
    /\ worklist # <<>>
    /\ Head(worklist) = "key_up_work"

(***************************************************************************)
(* C3: when the combo breaks after the activate callback of the cycle has   *)
(* begun, exactly one deactivate is enqueued for that cycle, it begins only *)
(* after that activate callback has returned, and (the worker being fair)   *)
(* it eventually runs; no deactivate is enqueued or invoked for a cycle     *)
(* whose activate did not run.                                              *)
(***************************************************************************)
C3_DeactivateSafety ==
    \A c \in Cycles :
        /\ NUp(c) <= 1
        /\ ~(NUp(c) = 1 /\ UpOutstanding(c))
        /\ (NUp(c) = 1 \/ UpOutstanding(c)) => NDown(c) = 1
        /\ NUp(c) = 1 => c \in returned
        /\ (Ended(c) /\ NDown(c) = 1) => (NUp(c) = 1 \/ UpOutstanding(c))

C3_DeactivateOnce ==
    /\ []C3_DeactivateSafety
    /\ \A c \in Cycles : (Ended(c) /\ NDown(c) = 1) ~> (NUp(c) = 1)

\* A cycle was broken after its activate ran, and its deactivate was invoked.
C3_Witness ==
    \E c \in Cycles :
        /\ Ended(c)
        /\ c \in returned
        /\ NUp(c) = 1
        /\ up_run = "key_up_fn"

C5_ActivateSafety ==
    \A c \in Cycles :
        /\ NDown(c) <= 1
        /\ NDown(c) = 1 => (c \in elapsed /\ c \notin cancelled)
        /\ c \in held_at_expiry =>
              \/ NDown(c) = 1
              \/ DownOutstanding(c)
              \/ /\ c \in cancelled
                 /\ NUp(c) = 0
                 /\ ~UpOutstanding(c)

C6_CountersMatchBits ==
    /\ key_down = Cardinality(key \cap DownRoleKeys)
    /\ key_up = Cardinality(key \cap UpRoleKeys)

\* Down-keys and an up-key are pressed at once, after a duplicate event.
C6_Witness ==
    /\ key_down = 2
    /\ key_up = 1
    /\ last_ev = "duplicate"

(***************************************************************************)
(* C7: a duplicate event for a tracked key (a non-zero value for a key      *)
(* marked pressed, a zero value for a key marked released) changes neither  *)
(* the pressed bits, the counters, the phase, the wake sources, the lock    *)
(* nor the armed, queued and running tasks.                                 *)
(***************************************************************************)
C7_DuplicateIsNoOp ==
    [][ \/ UNCHANGED <<corevars, histvars>>
        \/ \A code \in EventCodes, value \in EventValues :
              ~( /\ code < KEY_MAX
                 /\ code \in keybit
                 /\ ((code \in key) <=> (value # 0))
                 /\ keycombo_event(EV_KEY, code, value) ) ]_vars

\* An auto-repeat and a repeated release were delivered in phase PendingDown.
C7_Witness ==
    /\ last_ev = "duplicate"
    /\ key_is_down = 1
    /\ dw_timer
    /\ ~lock

(***************************************************************************)
(* C8: an event that is not a key event, or whose code is out of range      *)
(* (code >= KEY_MAX) or not tracked, is a no-op: no counter, pressed bit,   *)
(* phase, wake source, lock or task changes.                                *)
(***************************************************************************)
C8_IrrelevantIsNoOp ==
    [][ \/ UNCHANGED <<corevars, histvars>>
        \/ \A type \in EventTypes, code \in EventCodes,
              value \in EventValues :
              ~( /\ (type # EV_KEY \/ code >= KEY_MAX \/ code \notin keybit)
                 /\ keycombo_event(type, code, value) ) ]_vars

\* An irrelevant event was delivered while the activate callback was running
\* and another producer held the lock.
C8_Witness ==
    /\ last_ev = "ignored"
    /\ down_run = "key_down_fn"
    /\ lock

(***************************************************************************)
(* C9: whenever no event is being processed, the phase is PendingDown or    *)
(* Down (key_is_down = 1) only if key_down = key_down_target and            *)
(* key_up = 0.                                                              *)
(***************************************************************************)
C9_PhaseImpliesCombo ==
    (~lock /\ key_is_down = 1) =>
        (key_down = key_down_target /\ key_up = 0)

\* Phase Down: the combo is held and its activate callback is running.
C9_Witness ==
    /\ ~lock
    /\ key_is_down = 1
    /\ down_run = "key_down_fn"
    /\ key_down = 2

(***************************************************************************)
(* C10: an instance configured with no valid down-key code does not come    *)
(* into being: no combo is ever detected and no activate callback is ever   *)
(* queued or invoked for such a configuration.                              *)
(***************************************************************************)
C10_EmptyDownSetInert ==
    ValidCodes(keys_down) = {} =>
        /\ key_is_down = 0
        /\ ~DownPending
        /\ \A i \in 1..Len(calls) : calls[i].fn # "key_down_fn"

(***************************************************************************)
(* C11: once keycombo_remove has returned, no delayed activate is pending   *)
(* on its timer or on the queue, no callback is running, and none is        *)
(* invoked afterwards; also when the teardown comes in phase PendingDown.   *)
(***************************************************************************)
C11_TeardownLeavesNothing ==
    life = "removed" =>
        /\ ~DownPending
        /\ ~UpPending
        /\ Running = {}
        /\ \A c \in Cycles : NDown(c) = 1 => c \in returned

(***************************************************************************)
(* C12: whenever no event is being processed, combo_held_wake_source is     *)
(* active exactly when key_is_down = 1 (phase PendingDown or Down): taken   *)
(* on entering PendingDown, released on every return to Idle, after a       *)
(* successful and after a failed cancellation alike.                        *)
(***************************************************************************)
C12_HeldGuardIffPhase ==
    ~lock => (combo_held_wake_source <=> key_is_down = 1)

\* Back in Idle with the guard released, after one cycle whose cancellation
\* succeeded and one whose cancellation failed.
C12_Witness ==
    /\ ~lock
    /\ key_is_down = 0
    /\ ~combo_held_wake_source
    /\ 1 \in cancelled
    /\ UpOutstanding(2)

(***************************************************************************)
(* C13: combo_up_wake_source is active only while a deactivate is           *)
(* outstanding (being enqueued under the lock, queued, or running); it      *)
(* stays active until key_up_fn has returned; and it is acquired only when  *)
(* it is inactive and no earlier deactivate is queued or running.           *)
(***************************************************************************)
C13_ReleasingGuard ==
    /\ combo_up_wake_source =>
          (pc = "queue_work" \/ UpPending \/ up_run # "idle")
    /\ (UpPending \/ up_run = "key_up_fn") => combo_up_wake_source
    /\ pc = "pm_stay_awake" =>
          (~combo_up_wake_source /\ ~UpPending /\ up_run = "idle")

\* key_up_fn has returned and the guard is about to be released.
C13_Witness ==
    /\ combo_up_wake_source
    /\ up_run = "pm_relax"
    /\ ~UpPending
    /\ pc = "idle"

\* This step schedules the delayed activate: the combo-complete branch ran.
SchedulesActivate == cycle' # cycle
\* This step invokes key_down_fn.
InvokesActivate == down_run = "idle" /\ down_run' = "key_down_fn"

(***************************************************************************)
(* C14 as stated: while any up-key is marked pressed, no activate is        *)
(* scheduled and none is invoked.                                           *)
(***************************************************************************)
C14_NoActivateWhileUpKeyPressed ==
    [][ /\ (SchedulesActivate => key_up' = 0)
        /\ (InvokesActivate => key_up = 0) ]_vars

(***************************************************************************)
(* C14 amended: no activate is scheduled while an up-key is marked pressed, *)
(* and with no event in progress none is pending or invoked then; an        *)
(* activate is invoked with an up-key marked pressed only if it was         *)
(* scheduled before that press and the worker starts it while the press is  *)
(* still being processed, ahead of cancel_delayed_work.  Releasing the last *)
(* pressed up-key with all down-keys pressed schedules the activate, which  *)
(* then runs or is cancelled by a break (timer and worker being fair).      *)
(***************************************************************************)
C14_UpKeyBlocksActivate ==
    /\ [][ /\ (SchedulesActivate =>
                (key_up' = 0 /\ key_down' = key_down_target))
         /\ ((InvokesActivate /\ key_up > 0) =>
                (pc = "cancel_delayed_work" /\ down_run_cycle' = cycle))
         /\ ((key_up = 1 /\ key_up' = 0 /\ key_down' = key_down_target) =>
                (pc' = "queue_delayed_work" /\ key_is_down' = 1)) ]_vars
    /\ []((~lock /\ key_up > 0) => (~DownPending /\ key_is_down = 0))
    /\ \A c \in Cycles :
          (pc = "queue_delayed_work" /\ cycle = c /\ upbit # {})
             ~> (NDown(c) = 1 \/ c \in cancelled)

\* The press of an up-key is being processed, and the worker has begun the
\* activate scheduled before it.
C14_Witness ==
    /\ key_up > 0
    /\ key_down = key_down_target
    /\ pc = "cancel_delayed_work"
    /\ down_run = "key_down_fn"
    /\ down_run_cycle = cycle
    /\ cycle \notin held_at_expiry

\* The down-set and the up-set named by the platform data.
DownSet == ValidCodes(keys_down)
UpSet == ValidCodes(keys_up)

(***************************************************************************)
(* C15 as stated: out-of-range codes are left untracked, key_down_target is *)
(* the number of distinct tracked down-key codes, and with every down-key   *)
(* pressed and every up-key released the combo condition holds.             *)
(***************************************************************************)
C15_TargetIsDownSetSize ==
    /\ \A c \in Range(keys_down) \cup Range(keys_up) :
          c >= KEY_MAX => c \notin keybit
    /\ key_down_target = Cardinality(DownSet)
    /\ (DownSet \subseteq key /\ key \cap UpSet = {})
          => ComboComplete(key_down, key_up)

(***************************************************************************)
(* C16 as stated: a code in both lists takes the down role; the pressed     *)
(* codes of the down list are counted in key_down, only the other pressed   *)
(* codes in key_up, and with a shared code the combo condition holds once   *)
(* every down-key is pressed and no other up-key is.                        *)
(***************************************************************************)
C16_SharedCodeTakesDownRole ==
    /\ key_down = Cardinality(key \cap DownSet)
    /\ key_up = Cardinality(key \ DownSet)
    /\ (DownSet \cap UpSet # {} /\ DownSet \subseteq key /\ key \ DownSet = {})
          => ComboComplete(key_down, key_up)

\* A user callback is executing.
CallbackRunning == down_run = "key_down_fn" \/ up_run = "key_up_fn"
\* The rest of an event's critical section, up to the unlock.
ProducerStep ==
    \/ event_queue_delayed_work
    \/ event_cancel_delayed_work
    \/ event_pm_stay_awake
    \/ event_queue_work

(***************************************************************************)
(* C17: while key_down_fn or key_up_fn executes, the lock is free or held   *)
(* by the event being processed only; an event in its critical section can  *)
(* take its next step, and with no event in progress every tracked key      *)
(* event is accepted, so events are processed to completion while the       *)
(* callback is still running.                                               *)
(***************************************************************************)
C17_CallbackRunsUnlocked ==
    CallbackRunning =>
        /\ lock <=> pc # "idle"
        /\ pc # "idle" => ENABLED ProducerStep
        /\ (pc = "idle" /\ cycle < MaxCycles) =>
              \A code \in keybit, value \in {0, 1} :
                 ENABLED keycombo_event(EV_KEY, code, value)

\* The activate callback of the first cycle is still running after the
\* break and the next completion of the combo were processed.
C17_Witness ==
    /\ down_run = "key_down_fn"
    /\ down_run_cycle = 1
    /\ cycle = 2
    /\ key_is_down = 1
    /\ pc = "idle"
    /\ ~lock

(***************************************************************************)
(* C18: the break is detected and the cancellation attempted in one         *)
(* critical section.  With the lock free the phase is never Idle while a    *)
(* delayed activate is pending on its timer or on the queue; the break      *)
(* branch leaves the critical section only through cancel_delayed_work; and *)
(* an activate that begins after the break was detected, before the         *)
(* cancellation attempt, is followed by the deactivate of its cycle.        *)
(***************************************************************************)
C18_CancelInBreakSection ==
    /\ []((~lock /\ key_is_down = 0) => ~DownPending)
    /\ [][ (key_is_down = 1 /\ key_is_down' = 0) =>
             (lock /\ ~lock' /\ ~DownPending') ]_vars
    /\ [][ (pc = "idle" /\ pc' = "cancel_delayed_work") =>
             (~lock /\ lock' /\ key_is_down = 1) ]_vars
    /\ \A c \in Cycles :
          (pc = "cancel_delayed_work" /\ cycle = c
             /\ down_run = "key_down_fn" /\ down_run_cycle = c)
          ~> (NUp(c) = 1)

\* The break of the current cycle was detected, and the worker began the
\* activate of that cycle before cancel_delayed_work was reached.
C18_Witness ==
    /\ pc = "cancel_delayed_work"
    /\ lock
    /\ down_run = "key_down_fn"
    /\ down_run_cycle = cycle
    /\ cycle \in elapsed
    /\ cycle \notin held_at_expiry

(***************************************************************************)
(* C19: PendingDown is entered from Idle only.  Every non-duplicate tracked *)
(* event processed while the combo condition holds makes it false; when the *)
(* combo-complete branch schedules the delayed activate, key_is_down was 0  *)
(* and no activate was pending, and none is pending when                    *)
(* queue_delayed_work is reached.                                           *)
(***************************************************************************)
C19_NoReentryOfPendingDown ==
    /\ [][ (key' # key /\ ComboComplete(key_down, key_up)) =>
             ~ComboComplete(key_down', key_up') ]_vars
    /\ [][ SchedulesActivate => (key_is_down = 0 /\ ~DownPending) ]_vars
    /\ [](pc = "queue_delayed_work" => ~DownPending)

\* The activate of a second cycle is about to be queued while the worker
\* is still busy with the first cycle.
C19_Witness ==
    /\ pc = "queue_delayed_work"
    /\ cycle = 2
    /\ key_is_down = 1
    /\ (down_run # "idle" \/ up_run # "idle" \/ UpPending)

\* The worker has nothing queued and nothing running.
Drained == worklist = <<>> /\ Running = {}

(***************************************************************************)
(* C20: no wake guard leaks.  With no event in progress and the combo       *)
(* condition false the held guard is released; once the worker has drained  *)
(* its queue the releasing guard is released as well; and a taken releasing *)
(* guard is eventually released (the worker being fair).  If the events     *)
(* end with the combo condition false, the worker drains its queue and both *)
(* guards stay released from then on.                                       *)
(***************************************************************************)
C20_NoWakeGuardLeak ==
    /\ []((~lock /\ ~ComboComplete(key_down, key_up))
            => ~combo_held_wake_source)
    /\ []((~lock /\ Drained) => ~combo_up_wake_source)
    /\ (combo_up_wake_source ~> ~combo_up_wake_source)
    /\ (<>[](~lock /\ ~ComboComplete(key_down, key_up)))
          => <>[](Drained /\ ~combo_held_wake_source /\ ~combo_up_wake_source)

\* A combo was activated, broken and deactivated; the worker has drained its
\* queue and both guards are released.
C20_Witness ==
    /\ ~lock
    /\ ~ComboComplete(key_down, key_up)
    /\ Drained
    /\ NDown(1) = 1
    /\ NUp(1) = 1
    /\ ~combo_held_wake_source
    /\ ~combo_up_wake_source

====
